---- MODULE Spec2Model ----
(***************************************************************************)
(* UDP hole-punching chat client (src/src/main.rs).                        *)
(*                                                                         *)
(* main: register -> get_peer_address -> spawn the stdin reader thread ->  *)
(* spawn the session task (select loop) -> punch burst -> wait for ctrl_c. *)
(* The environment is the rendezvous server (a script of answers), the     *)
(* standard input, the network delivering datagrams to the bound socket,   *)
(* and the interrupt signal.                                               *)
(***************************************************************************)
EXTENDS Integers, Sequences, FiniteSets, TLC

VARIABLES
    procState,   \* "running" | "exit_ok" | "exit_err" | "killed"
    error,       \* the error main returned (NoError while there is none)
    mainPc,      \* where the main task stands
    name,        \* cli.name
    sock,        \* the socket register bound, or NoSock
    regI,        \* iterations of register's send loop completed
    regPackets,  \* the datagrams register sent, in order
    script,      \* the rendezvous server's answers, attempt by attempt
    attempt,     \* get_peer_address: the loop variable
    backoff,     \* get_peer_address: the transport backoff in ms
    requests,    \* how many HTTP requests get_peer_address issued
    delays,      \* the sleeps get_peer_address made, in ms, in order
    peer,        \* the resolved peer address, or NoPeer
    readerPc,    \* stdin thread: "none" | "running" | "break_send" | "break_read"
    envLeft,     \* lines and datagrams the environment will still deliver
    stdin,       \* lines typed and not yet read
    stdinClosed, \* the standard input is at its end
    eofRead,     \* read_line has returned Ok(0)
    line,        \* the reader's buffer: what read_line last put in it
    queue,       \* the unbounded channel tx -> rx
    enqueued,    \* every message the reader sent into the channel, in order
    sessPc,      \* session task: "none" | "select" | "sending"
    cur,         \* the line the session task is sending (<<>>: none)
    recvRes,     \* what recv_from last completed with
    arrived,     \* datagrams (and errors) delivered to the socket so far
    inbox,       \* the socket's receive buffer
    attempts,    \* every chat send_to the session made, with its result
    printed,     \* stdout: the inbound datagrams the session printed
    sentLog,     \* stdout: the "Sent: ..." lines the session printed
    banners,     \* stdout: the lines main printed
    punchIdx,    \* punch datagrams sent so far
    punchLog     \* source and destination of the last punch datagram

mainVars == <<procState, error, mainPc>>
regVars  == <<name, sock, regI, regPackets>>
resVars  == <<script, attempt, backoff, requests, delays, peer>>
readVars == <<readerPc, stdin, stdinClosed, eofRead, line, queue, enqueued>>
netVars  == <<envLeft, arrived, inbox>>
sessVars == <<sessPc, cur, recvRes, attempts, printed, sentLog>>
punVars  == <<punchIdx, punchLog>>
vars ==
    <<mainVars, banners, regVars, resVars, readVars, netVars, sessVars, punVars>>

\* no socket yet, no peer address yet
NoSock == [bound |-> FALSE]
NoPeer == [ok |-> FALSE]
NoPunch == [sent |-> FALSE]
NoRecv == [kind |-> "none"]
NoError == [kind |-> "none"]

Min(a, b) == IF a <= b THEN a ELSE b

----------------------------------------------------------------------------
(* Bounds of the model.                                                    *)

\* longest server script of the resolver specification
ResolverScriptLen == 6
\* longest server script of the whole-program specification
ProgramScriptLen == 1
\* lines typed plus datagrams delivered, whole-program specification
ProgramInputs == 1
\* lines typed plus datagrams delivered, session specification
MaxInputs == 3
\* lines typed plus datagrams delivered, fair session specification
FairInputs == 2
\* longest client name of the register specification
MaxNameLen == 3

----------------------------------------------------------------------------
(* Text: characters, bytes, trimming.                                      *)

IsSpace(c) == c \in {" ", "\n", "\t", "\r"}

RECURSIVE TrimStart(_)
TrimStart(s) ==
    IF s /= <<>> /\ IsSpace(Head(s)) THEN TrimStart(Tail(s)) ELSE s

RECURSIVE TrimEnd(_)
TrimEnd(s) ==
    IF s /= <<>> /\ IsSpace(s[Len(s)])
    THEN TrimEnd(SubSeq(s, 1, Len(s) - 1))
    ELSE s

\* str::trim
Trim(s) == TrimEnd(TrimStart(s))

Alphabet == {"a", "b", "o", "n", "e", "p", "u", "c", "h", " ", "\n", "\t", "\r"}

\* the UTF-8 code of a character of the model's alphabet
CharCode(c) ==
    CASE c = "a" -> 97
      [] c = "b" -> 98
      [] c = "p" -> 112
      [] c = "u" -> 117
      [] c = "c" -> 99
      [] c = "h" -> 104
      [] c = "o" -> 111
      [] c = "n" -> 110
      [] c = "e" -> 101
      [] c = " " -> 32
      [] c = "\n" -> 10
      [] c = "\t" -> 9
      [] c = "\r" -> 13

\* str::as_bytes
AsBytes(s) == [i \in 1..Len(s) |-> CharCode(s[i])]

\* U+FFFD, which a lossy decoding puts for a byte that is no UTF-8
Replacement == "\\uFFFD"

\* String::from_utf8_lossy
FromUtf8Lossy(bytes) ==
    [i \in 1..Len(bytes) |->
        IF \E c \in Alphabet : CharCode(c) = bytes[i]
        THEN CHOOSE c \in Alphabet : CharCode(c) = bytes[i]
        ELSE Replacement]

----------------------------------------------------------------------------
(* register (main.rs 24-42).                                               *)

RegisterRetries == 3
RegisterBackoffMs == 200
RendezvousUdpPort == 4200
EphemeralPort == 50000

\* packet = 0x00 ++ name bytes ++ 0xFF
RegistrationPacket(n) == <<0>> \o AsBytes(n) \o <<255>>

Fail(e) ==
    /\ procState' = "exit_err"
    /\ error' = e
    /\ mainPc' = "exit"

\* UdpSocket::bind("0.0.0.0:0").await?
RegisterBind ==
    /\ procState = "running" /\ mainPc = "register_bind"
    /\ \/ /\ sock' = [bound |-> TRUE, port |-> EphemeralPort]
          /\ mainPc' = "register_send"
          /\ UNCHANGED <<procState, error>>
       \/ /\ Fail([kind |-> "bind"])
          /\ UNCHANGED sock
    /\ UNCHANGED <<name, regI, regPackets>>
    /\ UNCHANGED <<banners, resVars, readVars, netVars, sessVars, punVars>>

\* mutant: the loop runs 1..max_retries exclusive, one datagram short
RegisterSend_OneShort ==
    /\ procState = "running" /\ mainPc = "register_send"
    /\ \/ /\ regPackets' = Append(regPackets,
                 [src |-> sock, port |-> RendezvousUdpPort,
                  payload |-> RegistrationPacket(name)])
          /\ regI' = regI + 1
          /\ mainPc' = IF regI + 1 = RegisterRetries - 1
                       THEN "resolve" ELSE "register_send"
          /\ UNCHANGED <<procState, error>>
       \/ /\ Fail([kind |-> "send"])
          /\ UNCHANGED <<regI, regPackets>>
    /\ UNCHANGED <<name, sock>>
    /\ UNCHANGED <<banners, resVars, readVars, netVars, sessVars, punVars>>

\* mutant: a failed send is skipped and the loop goes on
RegisterSend_SkipsFailed ==
    /\ procState = "running" /\ mainPc = "register_send"
    /\ \/ regPackets' = Append(regPackets,
                 [src |-> sock, port |-> RendezvousUdpPort,
                  payload |-> RegistrationPacket(name)])
       \/ UNCHANGED regPackets
    /\ regI' = regI + 1
    /\ mainPc' = IF regI + 1 = RegisterRetries
                 THEN "resolve" ELSE "register_send"
    /\ UNCHANGED <<procState, error>>
    /\ UNCHANGED <<name, sock>>
    /\ UNCHANGED <<banners, resVars, readVars, netVars, sessVars, punVars>>

\* one iteration of the loop: send_to(&packet, addr).await?; sleep(200ms)
RegisterSend ==
    /\ procState = "running" /\ mainPc = "register_send"
    /\ \/ /\ regPackets' = Append(regPackets,
                 [src |-> sock, port |-> RendezvousUdpPort,
                  payload |-> RegistrationPacket(name)])
          /\ regI' = regI + 1
          /\ mainPc' = IF regI + 1 = RegisterRetries
                       THEN "resolve" ELSE "register_send"
          /\ UNCHANGED <<procState, error>>
       \/ /\ Fail([kind |-> "send"])
          /\ UNCHANGED <<regI, regPackets>>
    /\ UNCHANGED <<name, sock>>
    /\ UNCHANGED <<banners, resVars, readVars, netVars, sessVars, punVars>>

----------------------------------------------------------------------------
(* get_peer_address (main.rs 44-95).                                       *)

http_timeout == 10
max_retries == 5
InitialBackoffMs == 400
BackoffCapMs == 5000
NotFoundSleepMs == 600

\* what one HTTP GET can come back with
TransportError == [kind |-> "err"]
Response(st, b, ok) ==
    [kind |-> "resp", status |-> st, body |-> b, readable |-> ok]

GoodBody == <<" ", "7", ":", "9", "\n">>
BadBody  == <<"7", " ", "9", "\n">>

Good200       == Response(200, GoodBody, TRUE)
Malformed200  == Response(200, BadBody, TRUE)
Unreadable200 == Response(200, <<>>, FALSE)
NotFound404   == Response(404, <<>>, TRUE)
Other500      == Response(500, <<>>, TRUE)

Outcomes ==
    {TransportError, NotFound404, Other500, Good200, Malformed200,
     Unreadable200}

\* the answers after which get_peer_address may try again
Retryable == {TransportError, NotFound404}

\* the server's scripts of at most n answers: nothing follows an answer
\* that ends the resolution; the server repeats a script's last answer
Scripts(n) ==
    UNION {
        {Append(p, o) : p \in [1..k -> Retryable], o \in Outcomes}
        : k \in 0..(n - 1)}

OutcomeAt(i) == script[Min(i, Len(script))]

\* str::parse::<SocketAddr>: "<ip>:<port>" and nothing else
ParseSocketAddr(s) ==
    IF Len(s) = 3 /\ s[1] \in {"7", "8"} /\ s[2] = ":" /\ s[3] \in {"9"}
    THEN [ok |-> TRUE, ip |-> s[1], port |-> s[3]]
    ELSE [ok |-> FALSE]

\* mutant: the backoff is not doubled
AttemptTransportError_NoDoubling ==
    /\ procState = "running" /\ mainPc = "resolve"
    /\ OutcomeAt(attempt).kind = "err"
    /\ requests' = requests + 1
    /\ IF attempt < max_retries
       THEN /\ delays' = Append(delays, backoff)
            /\ backoff' = Min(backoff, BackoffCapMs)
            /\ attempt' = attempt + 1
            /\ UNCHANGED mainVars
       ELSE /\ Fail([kind |-> "network", attempt |-> attempt,
                     max |-> max_retries])
            /\ UNCHANGED <<delays, backoff, attempt>>
    /\ UNCHANGED <<script, peer>>
    /\ UNCHANGED <<banners, regVars, readVars, netVars, sessVars, punVars>>

\* mutant: one retry too many (attempt <= max_retries)
AttemptTransportError_OffByOne ==
    /\ procState = "running" /\ mainPc = "resolve"
    /\ OutcomeAt(attempt).kind = "err"
    /\ requests' = requests + 1
    /\ IF attempt <= max_retries
       THEN /\ delays' = Append(delays, backoff)
            /\ backoff' = Min(backoff * 2, BackoffCapMs)
            /\ attempt' = attempt + 1
            /\ UNCHANGED mainVars
       ELSE /\ Fail([kind |-> "network", attempt |-> attempt,
                     max |-> max_retries])
            /\ UNCHANGED <<delays, backoff, attempt>>
    /\ UNCHANGED <<script, peer>>
    /\ UNCHANGED <<banners, regVars, readVars, netVars, sessVars, punVars>>

\* Err(_) of client.get(&url).send().await
AttemptTransportError ==
    /\ procState = "running" /\ mainPc = "resolve"
    /\ OutcomeAt(attempt).kind = "err"
    /\ requests' = requests + 1
    /\ IF attempt < max_retries
       THEN /\ delays' = Append(delays, backoff)
            /\ backoff' = Min(backoff * 2, BackoffCapMs)
            /\ attempt' = attempt + 1
            /\ UNCHANGED mainVars
       ELSE /\ Fail([kind |-> "network", attempt |-> attempt,
                     max |-> max_retries])
            /\ UNCHANGED <<delays, backoff, attempt>>
    /\ UNCHANGED <<script, peer>>
    /\ UNCHANGED <<banners, regVars, readVars, netVars, sessVars, punVars>>

\* 200 => read the body, trim, parse, return
Attempt200 ==
    /\ procState = "running" /\ mainPc = "resolve"
    /\ OutcomeAt(attempt).kind = "resp"
    /\ OutcomeAt(attempt).status = 200
    /\ requests' = requests + 1
    /\ LET r == OutcomeAt(attempt) IN
       IF ~r.readable
       THEN /\ Fail([kind |-> "read_body"])
            /\ UNCHANGED peer
       ELSE IF ParseSocketAddr(Trim(r.body)).ok
       THEN /\ peer' = ParseSocketAddr(Trim(r.body))
            /\ mainPc' = "spawn_reader"
            /\ UNCHANGED <<procState, error>>
       ELSE /\ Fail([kind |-> "parse", text |-> Trim(r.body)])
            /\ UNCHANGED peer
    /\ UNCHANGED <<script, attempt, backoff, delays>>
    /\ UNCHANGED <<banners, regVars, readVars, netVars, sessVars, punVars>>

\* mutant: one retry too many (attempt <= max_retries)
Attempt404_OffByOne ==
    /\ procState = "running" /\ mainPc = "resolve"
    /\ OutcomeAt(attempt).kind = "resp"
    /\ OutcomeAt(attempt).status = 404
    /\ requests' = requests + 1
    /\ IF attempt <= max_retries
       THEN /\ delays' = Append(delays, NotFoundSleepMs)
            /\ backoff' = InitialBackoffMs
            /\ attempt' = attempt + 1
            /\ UNCHANGED mainVars
       ELSE /\ Fail([kind |-> "not_found"])
            /\ UNCHANGED <<delays, backoff, attempt>>
    /\ UNCHANGED <<script, peer>>
    /\ UNCHANGED <<banners, regVars, readVars, netVars, sessVars, punVars>>

\* mutant: the backoff is not reset
Attempt404_KeepsBackoff ==
    /\ procState = "running" /\ mainPc = "resolve"
    /\ OutcomeAt(attempt).kind = "resp"
    /\ OutcomeAt(attempt).status = 404
    /\ requests' = requests + 1
    /\ IF attempt < max_retries
       THEN /\ delays' = Append(delays, NotFoundSleepMs)
            /\ UNCHANGED backoff
            /\ attempt' = attempt + 1
            /\ UNCHANGED mainVars
       ELSE /\ Fail([kind |-> "not_found"])
            /\ UNCHANGED <<delays, backoff, attempt>>
    /\ UNCHANGED <<script, peer>>
    /\ UNCHANGED <<banners, regVars, readVars, netVars, sessVars, punVars>>

\* mutant: the last 404 is reported as a network error
Attempt404_WrongError ==
    /\ procState = "running" /\ mainPc = "resolve"
    /\ OutcomeAt(attempt).kind = "resp"
    /\ OutcomeAt(attempt).status = 404
    /\ requests' = requests + 1
    /\ IF attempt < max_retries
       THEN /\ delays' = Append(delays, NotFoundSleepMs)
            /\ backoff' = InitialBackoffMs
            /\ attempt' = attempt + 1
            /\ UNCHANGED mainVars
       ELSE /\ Fail([kind |-> "network", attempt |-> attempt,
                     max |-> max_retries])
            /\ UNCHANGED <<delays, backoff, attempt>>
    /\ UNCHANGED <<script, peer>>
    /\ UNCHANGED <<banners, regVars, readVars, netVars, sessVars, punVars>>

\* 404 => sleep 600ms, reset the backoff, try again; the last attempt fails
Attempt404 ==
    /\ procState = "running" /\ mainPc = "resolve"
    /\ OutcomeAt(attempt).kind = "resp"
    /\ OutcomeAt(attempt).status = 404
    /\ requests' = requests + 1
    /\ IF attempt < max_retries
       THEN /\ delays' = Append(delays, NotFoundSleepMs)
            /\ backoff' = InitialBackoffMs
            /\ attempt' = attempt + 1
            /\ UNCHANGED mainVars
       ELSE /\ Fail([kind |-> "not_found"])
            /\ UNCHANGED <<delays, backoff, attempt>>
    /\ UNCHANGED <<script, peer>>
    /\ UNCHANGED <<banners, regVars, readVars, netVars, sessVars, punVars>>

\* mutant: the error is swallowed and main goes on without an address
AttemptOther_Swallowed ==
    /\ procState = "running" /\ mainPc = "resolve"
    /\ OutcomeAt(attempt).kind = "resp"
    /\ OutcomeAt(attempt).status \notin {200, 404}
    /\ requests' = requests + 1
    /\ mainPc' = "spawn_reader"
    /\ UNCHANGED <<procState, error>>
    /\ UNCHANGED <<script, attempt, backoff, delays, peer>>
    /\ UNCHANGED <<banners, regVars, readVars, netVars, sessVars, punVars>>

\* mutant: an unexpected status is retried like a 404
AttemptOther_Retried ==
    /\ procState = "running" /\ mainPc = "resolve"
    /\ OutcomeAt(attempt).kind = "resp"
    /\ OutcomeAt(attempt).status \notin {200, 404}
    /\ requests' = requests + 1
    /\ IF attempt < max_retries
       THEN /\ delays' = Append(delays, NotFoundSleepMs)
            /\ attempt' = attempt + 1
            /\ UNCHANGED mainVars
       ELSE /\ Fail([kind |-> "unexpected_status",
                     status |-> OutcomeAt(attempt).status])
            /\ UNCHANGED <<delays, attempt>>
    /\ UNCHANGED <<script, backoff, peer>>
    /\ UNCHANGED <<banners, regVars, readVars, netVars, sessVars, punVars>>

\* other => bail
AttemptOther ==
    /\ procState = "running" /\ mainPc = "resolve"
    /\ OutcomeAt(attempt).kind = "resp"
    /\ OutcomeAt(attempt).status \notin {200, 404}
    /\ requests' = requests + 1
    /\ Fail([kind |-> "unexpected_status",
             status |-> OutcomeAt(attempt).status])
    /\ UNCHANGED <<script, attempt, backoff, delays, peer>>
    /\ UNCHANGED <<banners, regVars, readVars, netVars, sessVars, punVars>>

GetPeerAddress ==
    \/ AttemptTransportError
    \/ Attempt200
    \/ Attempt404
    \/ AttemptOther

----------------------------------------------------------------------------
(* The environment of the session: the user typing, the network.           *)

\* the lines read_line can return, newline included; InvalidLine is a
\* line that is no UTF-8
InvalidLine == <<"\\xFF", "\n">>
RawLines ==
    {<<"\n">>, <<" ", "\n">>, <<"a", "\n">>, <<" ", "b", " ", "\n">>}

\* the payload of a punch datagram: b"punch"
PunchPayload == AsBytes(<<"p", "u", "n", "c", "h">>)

PeerAddr == [ok |-> TRUE, ip |-> "7", port |-> "9"]
StrangerAddr == [ok |-> TRUE, ip |-> "8", port |-> "9"]

\* what recv_from can complete with: a datagram, or an error
RecvError == [kind |-> "error"]
Datagram(from, payload) ==
    [kind |-> "dgram", from |-> from, payload |-> payload]
Arrivals ==
    {Datagram(PeerAddr, <<>>), Datagram(PeerAddr, <<97>>),
     Datagram(PeerAddr, <<255>>), Datagram(PeerAddr, PunchPayload),
     Datagram(StrangerAddr, <<98>>), RecvError}

\* the user types a line
TypeLine ==
    /\ procState = "running"
    /\ ~stdinClosed /\ envLeft > 0
    /\ \E l \in RawLines \cup {InvalidLine} : stdin' = Append(stdin, l)
    /\ envLeft' = envLeft - 1
    /\ UNCHANGED <<readerPc, stdinClosed, eofRead, line, queue, enqueued>>
    /\ UNCHANGED <<arrived, inbox>>
    /\ UNCHANGED <<mainVars, banners, regVars, resVars, sessVars, punVars>>

\* the standard input reaches its end
CloseStdin ==
    /\ procState = "running"
    /\ ~stdinClosed
    /\ stdinClosed' = TRUE
    /\ UNCHANGED <<readerPc, stdin, eofRead, line, queue, enqueued>>
    /\ UNCHANGED <<mainVars, banners, regVars, resVars, netVars, sessVars,
                   punVars>>

\* the network delivers a datagram (or an error) to the bound socket
Arrive ==
    /\ procState = "running"
    /\ sock.bound /\ envLeft > 0
    /\ \E d \in Arrivals : inbox' = Append(inbox, d)
    /\ envLeft' = envLeft - 1
    /\ arrived' = arrived + 1
    /\ UNCHANGED <<mainVars, banners, regVars, resVars, readVars, sessVars,
                   punVars>>

----------------------------------------------------------------------------
(* The stdin reader thread (main.rs 105-121).                              *)

\* the receiver rx lives in main and then in the session task, which
\* never returns: it is dropped only when the process ends
RxAlive == procState = "running"

\* mutant: the check msg.is_empty() is missing
ReaderLine_SendsEmpty ==
    /\ procState = "running" /\ readerPc = "running"
    /\ stdin /= <<>>
    /\ stdin' = Tail(stdin)
    /\ LET read == Head(stdin)
           msg == Trim(read)
       IN IF read = InvalidLine
          THEN /\ line' = <<>>
               /\ readerPc' = "break_read"
               /\ UNCHANGED <<queue, enqueued>>
          ELSE /\ line' = read
               /\ queue' = Append(queue, msg)
               /\ enqueued' = Append(enqueued, msg)
               /\ UNCHANGED readerPc
    /\ UNCHANGED <<stdinClosed, eofRead>>
    /\ UNCHANGED <<mainVars, banners, regVars, resVars, netVars, sessVars,
                   punVars>>

\* mutant: trim_end() in place of trim()
ReaderLine_TrimEndOnly ==
    /\ procState = "running" /\ readerPc = "running"
    /\ stdin /= <<>>
    /\ stdin' = Tail(stdin)
    /\ LET read == Head(stdin)
           msg == TrimEnd(read)
       IN IF read = InvalidLine
          THEN /\ line' = <<>>
               /\ readerPc' = "break_read"
               /\ UNCHANGED <<queue, enqueued>>
          ELSE /\ line' = read
               /\ IF msg = <<>>
                  THEN UNCHANGED <<readerPc, queue, enqueued>>
                  ELSE IF RxAlive
                  THEN /\ queue' = Append(queue, msg)
                       /\ enqueued' = Append(enqueued, msg)
                       /\ UNCHANGED readerPc
                  ELSE /\ readerPc' = "break_send"
                       /\ UNCHANGED <<queue, enqueued>>
    /\ UNCHANGED <<stdinClosed, eofRead>>
    /\ UNCHANGED <<mainVars, banners, regVars, resVars, netVars, sessVars,
                   punVars>>

\* one pass of the loop over a line read_line returned
ReaderLine ==
    /\ procState = "running" /\ readerPc = "running"
    /\ stdin /= <<>>
    /\ stdin' = Tail(stdin)
    /\ LET read == Head(stdin)
           msg == Trim(read)
       IN IF read = InvalidLine
          THEN \* line.clear(); read_line: Err => break
               /\ line' = <<>>
               /\ readerPc' = "break_read"
               /\ UNCHANGED <<queue, enqueued>>
          ELSE /\ line' = read
               /\ IF msg = <<>>
                  THEN \* continue
                       UNCHANGED <<readerPc, queue, enqueued>>
                  ELSE IF RxAlive
                  THEN /\ queue' = Append(queue, msg)
                       /\ enqueued' = Append(enqueued, msg)
                       /\ UNCHANGED readerPc
                  ELSE /\ readerPc' = "break_send"
                       /\ UNCHANGED <<queue, enqueued>>
    /\ UNCHANGED <<stdinClosed, eofRead>>
    /\ UNCHANGED <<mainVars, banners, regVars, resVars, netVars, sessVars,
                   punVars>>

\* one pass of the loop at the end of the input: read_line returns Ok(0),
\* the line is empty, msg is empty, continue
ReaderEof ==
    /\ procState = "running" /\ readerPc = "running"
    /\ stdin = <<>> /\ stdinClosed
    /\ eofRead' = TRUE
    /\ line' = <<>>
    /\ LET msg == Trim(<<>>)
       IN IF msg = <<>>
          THEN UNCHANGED <<readerPc, queue, enqueued>>
          ELSE /\ queue' = Append(queue, msg)
               /\ enqueued' = Append(enqueued, msg)
               /\ UNCHANGED readerPc
    /\ UNCHANGED <<stdin, stdinClosed>>
    /\ UNCHANGED <<mainVars, banners, regVars, resVars, netVars, sessVars,
                   punVars>>

----------------------------------------------------------------------------
(* The session task (main.rs 127-144).                                     *)

BufSize == 2048

Printed(from, text) == [kind |-> "recv", from |-> from, text |-> text]
SentLine(l) == [kind |-> "sent", line |-> l]
Banner(text) == [kind |-> "main", text |-> text]

\* mutant: completing recv_from discards the message rx.recv() held ready
RecvBranch_DropsLine ==
    /\ procState = "running" /\ sessPc = "select"
    /\ inbox /= <<>>
    /\ inbox' = Tail(inbox)
    /\ recvRes' = Head(inbox)
    /\ queue' = IF queue = <<>> THEN queue ELSE Tail(queue)
    /\ LET res == Head(inbox) IN
       IF res.kind = "dgram"
       THEN LET len == Min(Len(res.payload), BufSize) IN
            IF len = 0
            THEN UNCHANGED printed
            ELSE printed' = Append(printed,
                     Printed(res.from,
                             FromUtf8Lossy(SubSeq(res.payload, 1, len))))
       ELSE UNCHANGED printed
    /\ UNCHANGED <<sessPc, cur, attempts, sentLog, envLeft, arrived>>
    /\ UNCHANGED <<readerPc, stdin, stdinClosed, eofRead, line, enqueued>>
    /\ UNCHANGED <<mainVars, banners, regVars, resVars, punVars>>

\* mutant: a failed receive ends the session task
RecvBranch_ErrorStops ==
    /\ procState = "running" /\ sessPc = "select"
    /\ inbox /= <<>>
    /\ inbox' = Tail(inbox)
    /\ recvRes' = Head(inbox)
    /\ sessPc' = IF Head(inbox).kind = "dgram" THEN sessPc ELSE "stopped"
    /\ LET res == Head(inbox) IN
       IF res.kind = "dgram"
       THEN LET len == Min(Len(res.payload), BufSize) IN
            IF len = 0
            THEN UNCHANGED printed
            ELSE printed' = Append(printed,
                     Printed(res.from,
                             FromUtf8Lossy(SubSeq(res.payload, 1, len))))
       ELSE UNCHANGED printed
    /\ UNCHANGED <<cur, attempts, sentLog, envLeft, arrived>>
    /\ UNCHANGED <<mainVars, banners, regVars, resVars, readVars, punVars>>

\* select!: recv_from completed first
RecvBranch ==
    /\ procState = "running" /\ sessPc = "select"
    /\ inbox /= <<>>
    /\ inbox' = Tail(inbox)
    /\ recvRes' = Head(inbox)
    /\ LET res == Head(inbox) IN
       IF res.kind = "dgram"
       THEN LET len == Min(Len(res.payload), BufSize) IN
            IF len = 0
            THEN UNCHANGED printed
            ELSE printed' = Append(printed,
                     Printed(res.from,
                             FromUtf8Lossy(SubSeq(res.payload, 1, len))))
       ELSE UNCHANGED printed
    /\ UNCHANGED <<sessPc, cur, attempts, sentLog, envLeft, arrived>>
    /\ UNCHANGED <<mainVars, banners, regVars, resVars, readVars, punVars>>

\* select!: rx.recv() completed first with Some(line); while main lives its
\* sender tx lives, so rx.recv() never completes with None
LineBranch ==
    /\ procState = "running" /\ sessPc = "select"
    /\ queue /= <<>>
    /\ cur' = Head(queue)
    /\ queue' = Tail(queue)
    /\ sessPc' = "sending"
    /\ UNCHANGED <<recvRes, attempts, printed, sentLog>>
    /\ UNCHANGED <<readerPc, stdin, stdinClosed, eofRead, line, enqueued>>
    /\ UNCHANGED <<mainVars, banners, regVars, resVars, netVars, punVars>>

\* mutant: a failed send ends the session task
SendLine_FatalOnError ==
    /\ procState = "running" /\ sessPc = "sending"
    /\ \E ok \in BOOLEAN :
          /\ attempts' = Append(attempts,
                 [line |-> cur, src |-> sock, dst |-> peer,
                  payload |-> AsBytes(cur), ok |-> ok])
          /\ sentLog' = IF ok THEN Append(sentLog, SentLine(cur))
                        ELSE sentLog
          /\ sessPc' = IF ok THEN "select" ELSE "stopped"
    /\ cur' = <<>>
    /\ UNCHANGED <<recvRes, printed>>
    /\ UNCHANGED <<mainVars, banners, regVars, resVars, readVars, netVars,
                   punVars>>

\* mutant: the confirmation is printed whatever send_to returned
SendLine_ConfirmsAlways ==
    /\ procState = "running" /\ sessPc = "sending"
    /\ \E ok \in BOOLEAN :
          /\ attempts' = Append(attempts,
                 [line |-> cur, src |-> sock, dst |-> peer,
                  payload |-> AsBytes(cur), ok |-> ok])
          /\ sentLog' = Append(sentLog, SentLine(cur))
    /\ cur' = <<>>
    /\ sessPc' = "select"
    /\ UNCHANGED <<recvRes, printed>>
    /\ UNCHANGED <<mainVars, banners, regVars, resVars, readVars, netVars,
                   punVars>>

\* chat_sock.send_to(line.as_bytes(), peer).await completes
SendLine ==
    /\ procState = "running" /\ sessPc = "sending"
    /\ \E ok \in BOOLEAN :
          /\ attempts' = Append(attempts,
                 [line |-> cur, src |-> sock, dst |-> peer,
                  payload |-> AsBytes(cur), ok |-> ok])
          /\ sentLog' = IF ok THEN Append(sentLog, SentLine(cur))
                        ELSE sentLog
    /\ cur' = <<>>
    /\ sessPc' = "select"
    /\ UNCHANGED <<recvRes, printed>>
    /\ UNCHANGED <<mainVars, banners, regVars, resVars, readVars, netVars,
                   punVars>>

----------------------------------------------------------------------------
(* main after the resolution (main.rs 103-155).                            *)

PunchCount == 100
PunchIntervalMs == 25

\* unbounded_channel(); std::thread::spawn
SpawnReader ==
    /\ procState = "running" /\ mainPc = "spawn_reader"
    /\ readerPc' = "running"
    /\ mainPc' = "spawn_session"
    /\ UNCHANGED <<procState, error, banners>>
    /\ UNCHANGED <<stdin, stdinClosed, eofRead, line, queue, enqueued>>
    /\ UNCHANGED <<regVars, resVars, netVars, sessVars, punVars>>

\* println!("chat with ..."); tokio::spawn
SpawnSession ==
    /\ procState = "running" /\ mainPc = "spawn_session"
    /\ banners' = Append(banners, Banner("chat with"))
    /\ sessPc' = "select"
    /\ mainPc' = "punch"
    /\ UNCHANGED <<procState, error, cur, recvRes, attempts, printed, sentLog>>
    /\ UNCHANGED <<regVars, resVars, readVars, netVars, punVars>>

\* mutant: the burst no longer waits for the session task to be spawned
PunchIteration_BeforeSpawn ==
    /\ procState = "running" /\ mainPc \in {"spawn_session", "punch"}
    /\ punchIdx < PunchCount
    /\ \/ /\ punchIdx' = punchIdx + 1
          /\ punchLog' = [sent |-> TRUE, src |-> sock, dst |-> peer,
                          payload |-> PunchPayload]
          /\ mainPc' = IF mainPc = "spawn_session" THEN mainPc
                       ELSE IF punchIdx + 1 = PunchCount
                       THEN "announce" ELSE "punch"
          /\ UNCHANGED <<procState, error>>
       \/ /\ Fail([kind |-> "send"])
          /\ UNCHANGED punVars
    /\ UNCHANGED <<banners, regVars, resVars, readVars, netVars, sessVars>>

\* mutant: a failed punch send breaks out of the loop and main goes on
PunchIteration_BreakOnFailure ==
    /\ procState = "running" /\ mainPc = "punch"
    /\ \/ /\ punchIdx' = punchIdx + 1
          /\ punchLog' = [sent |-> TRUE, src |-> sock, dst |-> peer,
                          payload |-> PunchPayload]
          /\ mainPc' = IF punchIdx + 1 = PunchCount
                       THEN "announce" ELSE "punch"
       \/ /\ mainPc' = "announce"
          /\ UNCHANGED punVars
    /\ UNCHANGED <<procState, error>>
    /\ UNCHANGED <<banners, regVars, resVars, readVars, netVars, sessVars>>

\* one iteration: punch_sock.send_to(b"punch", peer).await?; sleep(25ms)
PunchIteration ==
    /\ procState = "running" /\ mainPc = "punch"
    /\ \/ /\ punchIdx' = punchIdx + 1
          /\ punchLog' = [sent |-> TRUE, src |-> sock, dst |-> peer,
                          payload |-> PunchPayload]
          /\ mainPc' = IF punchIdx + 1 = PunchCount
                       THEN "announce" ELSE "punch"
          /\ UNCHANGED <<procState, error>>
       \/ /\ Fail([kind |-> "send"])
          /\ UNCHANGED punVars
    /\ UNCHANGED <<banners, regVars, resVars, readVars, netVars, sessVars>>

\* println!("Client running. ..."); ctrl_c() installs the handler and waits
Announce ==
    /\ procState = "running" /\ mainPc = "announce"
    /\ banners' = Append(banners, Banner("Client running"))
    /\ mainPc' = "wait_ctrl_c"
    /\ UNCHANGED <<procState, error>>
    /\ UNCHANGED <<regVars, resVars, readVars, netVars, sessVars, punVars>>

\* the interrupt signal: main returns Ok(()) once it waits in ctrl_c();
\* before that no handler is installed and the signal ends the process
Interrupt ==
    /\ procState = "running"
    /\ \/ /\ mainPc = "wait_ctrl_c"
          /\ banners' = Append(banners, Banner("Shutting down"))
          /\ procState' = "exit_ok"
          /\ mainPc' = "exit"
       \/ /\ mainPc /= "wait_ctrl_c"
          /\ procState' = "killed"
          /\ UNCHANGED <<mainPc, banners>>
    /\ UNCHANGED error
    /\ UNCHANGED <<regVars, resVars, readVars, netVars, sessVars, punVars>>

----------------------------------------------------------------------------
(* Initial states.                                                         *)

DefaultName == <<"o", "n", "e">>

InitWith(scripts, pc, s, i, inputs) ==
    /\ procState = "running"
    /\ error = NoError
    /\ mainPc = pc
    /\ name = DefaultName
    /\ sock = s
    /\ regI = i
    /\ regPackets = [k \in 1..i |->
          [src |-> s, port |-> RendezvousUdpPort,
           payload |-> RegistrationPacket(DefaultName)]]
    /\ script \in scripts
    /\ attempt = 1
    /\ backoff = InitialBackoffMs
    /\ requests = 0
    /\ delays = <<>>
    /\ peer = NoPeer
    /\ readerPc = "none"
    /\ stdin = <<>>
    /\ stdinClosed = FALSE
    /\ eofRead = FALSE
    /\ line = <<>>
    /\ queue = <<>>
    /\ enqueued = <<>>
    /\ sessPc = "none"
    /\ cur = <<>>
    /\ recvRes = NoRecv
    /\ envLeft = inputs
    /\ arrived = 0
    /\ inbox = <<>>
    /\ attempts = <<>>
    /\ printed = <<>>
    /\ sentLog = <<>>
    /\ banners = <<>>
    /\ punchIdx = 0
    /\ punchLog = NoPunch

\* the program at its start
Init ==
    InitWith(Scripts(ProgramScriptLen), "register_bind", NoSock, 0,
             ProgramInputs)

Environment == TypeLine \/ CloseStdin \/ Arrive \/ Interrupt
Reader == ReaderLine \/ ReaderEof
Session == RecvBranch \/ LineBranch \/ SendLine
Main ==
    \/ RegisterBind
    \/ RegisterSend
    \/ GetPeerAddress
    \/ SpawnReader
    \/ SpawnSession
    \/ PunchIteration
    \/ Announce

Next == Main \/ Reader \/ Session \/ Environment

Spec == Init /\ [][Next]_vars

\* the session from the last datagram of the punch burst on: register and
\* get_peer_address have returned, the reader thread and the session task
\* run, nothing has been typed or received so far
InitSessionWith(inputs) ==
    /\ procState = "running"
    /\ error = NoError
    /\ mainPc = "punch"
    /\ name = DefaultName
    /\ sock = [bound |-> TRUE, port |-> EphemeralPort]
    /\ regI = RegisterRetries
    /\ regPackets = [k \in 1..RegisterRetries |->
          [src |-> sock, port |-> RendezvousUdpPort,
           payload |-> RegistrationPacket(DefaultName)]]
    /\ script = <<Good200>>
    /\ attempt = 1
    /\ backoff = InitialBackoffMs
    /\ requests = 1
    /\ delays = <<>>
    /\ peer = PeerAddr
    /\ readerPc = "running"
    /\ stdin = <<>>
    /\ stdinClosed = FALSE
    /\ eofRead = FALSE
    /\ line = <<>>
    /\ queue = <<>>
    /\ enqueued = <<>>
    /\ sessPc = "select"
    /\ cur = <<>>
    /\ recvRes = NoRecv
    /\ envLeft = inputs
    /\ arrived = 0
    /\ inbox = <<>>
    /\ attempts = <<>>
    /\ printed = <<>>
    /\ sentLog = <<>>
    /\ banners = <<Banner("chat with")>>
    /\ punchIdx = PunchCount - 1
    /\ punchLog = [sent |-> TRUE, src |-> sock, dst |-> peer,
                   payload |-> PunchPayload]

NextSession ==
    \/ PunchIteration
    \/ Announce
    \/ Reader
    \/ Session
    \/ Environment

InitSession == InitSessionWith(MaxInputs)

SpecSession == InitSession /\ [][NextSession]_vars

InitFairSession == InitSessionWith(FairInputs)

\* select! picks at random among the branches that are ready, and the
\* send_to it awaits completes
FairSpecSession ==
    /\ InitFairSession /\ [][NextSession]_vars
    /\ SF_vars(RecvBranch)
    /\ SF_vars(LineBranch)
    /\ WF_vars(SendLine)

\* the names --name can give: DefaultName, and the strings of at most
\* MaxNameLen characters, the empty one included
Names ==
    {DefaultName} \cup
    UNION {[1..k -> {"a", "b"}] : k \in 0..MaxNameLen}

\* a call of register
InitRegister ==
    /\ procState = "running"
    /\ error = NoError
    /\ mainPc = "register_bind"
    /\ name \in Names
    /\ sock = NoSock
    /\ regI = 0
    /\ regPackets = <<>>
    /\ script = <<Good200>>
    /\ attempt = 1
    /\ backoff = InitialBackoffMs
    /\ requests = 0
    /\ delays = <<>>
    /\ peer = NoPeer
    /\ readerPc = "none"
    /\ stdin = <<>>
    /\ stdinClosed = FALSE
    /\ eofRead = FALSE
    /\ line = <<>>
    /\ queue = <<>>
    /\ enqueued = <<>>
    /\ sessPc = "none"
    /\ cur = <<>>
    /\ recvRes = NoRecv
    /\ envLeft = 0
    /\ arrived = 0
    /\ inbox = <<>>
    /\ attempts = <<>>
    /\ printed = <<>>
    /\ sentLog = <<>>
    /\ banners = <<>>
    /\ punchIdx = 0
    /\ punchLog = NoPunch

NextRegister == RegisterBind \/ RegisterSend

SpecRegister == InitRegister /\ [][NextRegister]_vars

\* a call of get_peer_address, register having returned its socket
InitResolver ==
    InitWith(Scripts(ResolverScriptLen), "resolve",
             [bound |-> TRUE, port |-> EphemeralPort], RegisterRetries, 0)

NextResolver == GetPeerAddress

SpecResolver == InitResolver /\ [][NextResolver]_vars

\* the call runs to its end: an async fn that is awaited is polled
FairSpecResolver == SpecResolver /\ WF_vars(NextResolver)

----------------------------------------------------------------------------
(* Properties of get_peer_address, checked under SpecResolver.             *)

\* get_peer_address has returned (to main, or its error through main)
ResolverDone == mainPc /= "resolve"

\* the server answers 404 exactly n times and then 200 with a good address
NotFoundThenGood(n) == script = [i \in 1..n |-> NotFound404] \o <<Good200>>

\* C1: against a server answering 404 exactly N times and then 200 with a
\* well-formed address, get_peer_address returns that address with exactly
\* N+1 requests when N+1 <= 5, and fails with the peer-not-found error
\* after exactly 5 requests when N+1 > 5.
C1_NotFoundThenGood ==
    \A n \in 0..(ResolverScriptLen - 1) :
        NotFoundThenGood(n) =>
            /\ requests <= Min(n + 1, max_retries)
            /\ ResolverDone =>
                 IF n + 1 <= max_retries
                 THEN /\ procState = "running" /\ error = NoError
                      /\ peer = [ok |-> TRUE, ip |-> "7", port |-> "9"]
                      /\ requests = n + 1
                 ELSE /\ procState = "exit_err" /\ ~peer.ok
                      /\ error = [kind |-> "not_found"]
                      /\ requests = max_retries

\* four 404s, then the address on the fifth and last attempt
C1_Witness ==
    /\ NotFoundThenGood(max_retries - 1)
    /\ ResolverDone /\ peer.ok /\ requests = max_retries

TransportErrorsOnly == \A i \in DOMAIN script : script[i] = TransportError

\* C2: against a server producing only transport errors the sleeps start
\* at 400ms, each is double the one before clamped to 5000ms (so they
\* never decrease and never exceed 5 s), and the failure of the last
\* attempt is a network error carrying the attempt count, with no sleep.
C2_TransportBackoff ==
    TransportErrorsOnly =>
        /\ delays /= <<>> => delays[1] = InitialBackoffMs
        /\ \A i \in 1..(Len(delays) - 1) :
               /\ delays[i + 1] = Min(2 * delays[i], BackoffCapMs)
               /\ delays[i] <= delays[i + 1]
        /\ \A i \in DOMAIN delays : delays[i] <= BackoffCapMs
        /\ backoff <= BackoffCapMs
        /\ ~ResolverDone => Len(delays) = requests
        /\ ResolverDone =>
               /\ procState = "exit_err"
               /\ error = [kind |-> "network", attempt |-> max_retries,
                           max |-> max_retries]
               /\ requests = max_retries
               /\ Len(delays) = max_retries - 1

\* five transport errors: four sleeps, then the network error
C2_Witness ==
    /\ TransportErrorsOnly /\ ResolverDone
    /\ delays = <<400, 800, 1600, 3200>>
    /\ error.kind = "network"

\* a 200 whose trimmed body is no socket address, or a status other than
\* 200 and 404
ProtocolMismatch(o) ==
    /\ o.kind = "resp"
    /\ \/ o.status \notin {200, 404}
       \/ o.status = 200 /\ o.readable /\ ~ParseSocketAddr(Trim(o.body)).ok

\* the first attempt the script answers with something not retryable
FirstFinal ==
    CHOOSE i \in DOMAIN script :
        /\ script[i] \notin Retryable
        /\ \A j \in 1..(i - 1) : script[j] \in Retryable

\* C3: a protocol mismatch is never retried: on whichever attempt the
\* resolver receives it, it fails at that attempt, with no further request
\* and no sleep, however many attempts remain.
C3_MismatchNotRetried ==
    (/\ \E i \in DOMAIN script : script[i] \notin Retryable
     /\ FirstFinal <= max_retries
     /\ ProtocolMismatch(script[FirstFinal])) =>
        /\ requests <= FirstFinal
        /\ Len(delays) <= FirstFinal - 1
        /\ requests = FirstFinal =>
               /\ ResolverDone
               /\ procState = "exit_err" /\ ~peer.ok
               /\ error.kind \in {"parse", "unexpected_status"}
               /\ Len(delays) = FirstFinal - 1

\* a mismatch on the second attempt, three attempts still to go
C3_Witness ==
    /\ Len(script) = 2 /\ ProtocolMismatch(script[2])
    /\ ResolverDone /\ requests = 2 /\ Len(delays) = 1
    /\ procState = "exit_err"

\* C4: whatever the server answers, get_peer_address issues at most 5
\* requests and then terminates, with an address or with an error.
C4_BoundedAndTerminates ==
    /\ [](requests <= max_retries)
    /\ <>[](/\ ResolverDone
            /\ \/ (peer.ok /\ procState = "running")
               \/ (~peer.ok /\ procState = "exit_err"))

\* a mixed run that uses all five attempts
C4_Witness ==
    /\ ResolverDone /\ requests = max_retries
    /\ \E i, j \in DOMAIN script :
           script[i] = TransportError /\ script[j] = NotFound404

----------------------------------------------------------------------------
(* Properties of the program's phases, checked under Spec.                 *)

\* the session has sent a chat line or printed an inbound datagram
SessionActed ==
    \/ attempts /= <<>>
    \/ sessPc = "sending"
    \/ recvRes.kind = "dgram"
    \/ printed /= <<>>
    \/ sentLog /= <<>>

\* C5, as stated: strict phase ordering, no chat line is sent and no
\* inbound datagram is received or printed by the session before the last
\* punch datagram of the burst has been sent.
C5_StrictPhaseOrdering == SessionActed => punchIdx = PunchCount

\* C5, amended: the session task is spawned after the resolution and
\* before the first punch datagram; nothing is sent or printed by the
\* session before it is spawned, and the burst starts only once it runs, so
\* the session may send and receive while the burst is in progress.
C5_SessionSpawnedBeforeBurst ==
    /\ SessionActed => sessPc /= "none"
    /\ punchIdx > 0 => sessPc /= "none"
    /\ sessPc /= "none" => peer.ok /\ mainPc \notin {"spawn_reader", "spawn_session"}
    /\ mainPc = "spawn_session" => punchIdx = 0 /\ sessPc = "none"

\* a datagram printed in the middle of the burst
C5_Witness ==
    /\ mainPc = "punch" /\ punchIdx > 0 /\ punchIdx < PunchCount
    /\ printed /= <<>>

\* C7: the peer address is resolved exactly once; no punch datagram is
\* sent and the session (reader, receive loop, send dispatcher) is not
\* started before register has returned the socket and get_peer_address
\* the address; when either fails nothing is punched and no session starts.
C7_ResolvedOnceBeforePunch ==
    /\ [](/\ (punchIdx > 0 \/ punchLog.sent \/ sessPc /= "none"
              \/ readerPc /= "none" \/ SessionActed)
             => /\ sock.bound /\ regI = RegisterRetries
                /\ Len(regPackets) = RegisterRetries
                /\ peer.ok /\ requests >= 1
                /\ mainPc \notin {"register_bind", "register_send", "resolve"}
          /\ (procState = "exit_err" /\ ~peer.ok)
             => /\ punchIdx = 0 /\ ~punchLog.sent
                /\ sessPc = "none" /\ readerPc = "none" /\ ~SessionActed)
    /\ [][/\ peer.ok => peer' = peer /\ requests' = requests
          /\ mainPc /= "resolve" /\ mainPc' = "resolve"
             => mainPc = "register_send" /\ ~peer.ok /\ requests = 0]_vars

\* punching and the session, after a resolution that took one request
C7_Witness ==
    /\ punchIdx > 0 /\ sessPc /= "none" /\ peer.ok /\ requests = 1
    /\ SessionActed

----------------------------------------------------------------------------
(* Properties of the session, checked under SpecSession.                   *)

\* a step of the program itself, not of its environment
ProgramStep == PunchIteration \/ Announce \/ Reader \/ Session

\* C6, as stated: once the input has been read to its end the session ends
\* without an interrupt: the reader has stopped and, until the program has
\* terminated normally, the program has a step to take towards that end.
C6_EofEndsSession ==
    (eofRead /\ procState = "running") =>
        /\ readerPc /= "running"
        /\ ENABLED <<ProgramStep>>_vars

\* the lines of the send attempts, in order
AttemptedLines == [i \in DOMAIN attempts |-> attempts[i].line]

\* the line in the dispatcher's hands
InHand == IF sessPc = "sending" THEN <<cur>> ELSE <<>>

\* the reader reads, in this step, a line that is empty once trimmed
ReadsEmptyLine ==
    /\ stdin /= <<>> /\ stdin' = Tail(stdin)
    /\ Head(stdin) /= InvalidLine /\ Trim(Head(stdin)) = <<>>

\* the session receives, in this step, a datagram of length zero
ReceivesEmptyDatagram ==
    /\ inbox /= <<>> /\ inbox' = Tail(inbox)
    /\ Head(inbox).kind = "dgram" /\ Head(inbox).payload = <<>>

\* C8: a zero-length inbound datagram is never printed or forwarded, an
\* empty input line is never enqueued or sent; both are skipped and the
\* session goes on with the next datagram or line.
C8_EmptySkipped ==
    /\ [](/\ \A i \in DOMAIN enqueued : enqueued[i] /= <<>>
          /\ \A i \in DOMAIN queue : queue[i] /= <<>>
          /\ \A i \in DOMAIN attempts :
                 attempts[i].line /= <<>> /\ attempts[i].payload /= <<>>
          /\ \A i \in DOMAIN printed : printed[i].text /= <<>>
          /\ \A i \in DOMAIN sentLog : sentLog[i].line /= <<>>)
    /\ [][/\ ReadsEmptyLine =>
                /\ queue' = queue /\ enqueued' = enqueued
                /\ readerPc' = "running" /\ procState' = "running"
          /\ ReceivesEmptyDatagram =>
                /\ printed' = printed /\ attempts' = attempts
                /\ queue' = queue
                /\ sessPc' = "select" /\ procState' = "running"]_vars

\* an empty line and a zero-length datagram have been read and skipped:
\* nothing enqueued, nothing printed, the reader and the loop still run
C8_Witness ==
    /\ line = <<"\n">> /\ recvRes = Datagram(PeerAddr, <<>>)
    /\ enqueued = <<>> /\ printed = <<>>
    /\ stdin = <<>> /\ inbox = <<>>
    /\ readerPc = "running" /\ sessPc = "select"

\* the datagrams (and errors) recv_from has returned
Received == arrived - Len(inbox)

C10_FifoNoLoss == AttemptedLines \o InHand \o queue = enqueued

\* two different lines sent in order, and a datagram received and printed
C10_Witness ==
    /\ Len(attempts) = 2 /\ attempts[1].line /= attempts[2].line
    /\ AttemptedLines = enqueued
    /\ printed /= <<>>

\* the send attempts that succeeded, as the confirmations they print
RECURSIVE Confirmations(_)
Confirmations(as) ==
    IF as = <<>> THEN <<>>
    ELSE LET rest == Confirmations(SubSeq(as, 1, Len(as) - 1))
             last == as[Len(as)]
         IN IF last.ok THEN Append(rest, SentLine(last.line)) ELSE rest

\* a send_to of the session completes in this step, and it has failed
ChatSendFails ==
    /\ Len(attempts') = Len(attempts) + 1
    /\ ~attempts'[Len(attempts')].ok

Receives(r) == inbox /= <<>> /\ inbox' = Tail(inbox) /\ Head(inbox) = r

\* C12: no inbound datagram terminates the session: a received datagram
\* that is not empty (text, bytes that are no UTF-8, a punch marker, from
\* the peer or from anyone) is printed once, tagged with its sender and
\* lossily decoded; a failed receive prints nothing; nothing else prints
\* an inbound line; after each the process runs and the loop is in select!.
C12_InboundNeverTerminates ==
    /\ [][\A r \in Arrivals : Receives(r) =>
             /\ IF r.kind = "dgram" /\ r.payload /= <<>>
                THEN /\ Len(printed') = Len(printed) + 1
                     /\ SubSeq(printed', 1, Len(printed)) = printed
                     /\ printed'[Len(printed')].from = r.from
                     /\ Len(printed'[Len(printed')].text) = Len(r.payload)
                     /\ r.payload = <<97>>
                          => printed'[Len(printed')].text = <<"a">>
                     /\ r.payload = <<255>>
                          => printed'[Len(printed')].text = <<Replacement>>
                     /\ r.payload = PunchPayload
                          => printed'[Len(printed')].text
                               = <<"p", "u", "n", "c", "h">>
                ELSE printed' = printed
             /\ procState' = "running" /\ sessPc' = "select"
             /\ error' = error
             /\ queue' = queue /\ sentLog' = sentLog]_vars
    /\ [][printed' /= printed => \E r \in Arrivals : Receives(r)]_vars
    /\ []((procState = "running" /\ sessPc = "select")
          => /\ queue /= <<>> => ENABLED <<LineBranch>>_vars
             /\ inbox /= <<>> => ENABLED <<RecvBranch>>_vars)

\* a failed receive, then bytes that are no UTF-8 and a punch marker, each
\* printed once, and the loop still in select!
C12_Witness ==
    /\ arrived = 3 /\ inbox = <<>>
    /\ printed = <<Printed(PeerAddr, <<Replacement>>),
                   Printed(PeerAddr, <<"p", "u", "n", "c", "h">>)>>
    /\ procState = "running" /\ sessPc = "select"

----------------------------------------------------------------------------
(* Properties of register, checked under SpecRegister and Spec.            *)

\* register has returned Ok(socket) to main
RegisterReturned == mainPc \notin {"register_bind", "register_send", "exit"}

\* p is 0x00, then the bytes of n, then 0xFF
IsRegistrationPacket(p, n) ==
    /\ Len(p) = Len(n) + 2
    /\ p[1] = 0 /\ p[Len(p)] = 255
    /\ \A i \in 1..Len(n) : p[i + 1] = CharCode(n[i])

\* C13: when the bind and every send succeed, register sends exactly 3
\* datagrams, each 0x00 ++ name ++ 0xFF, each to port 4200 of the
\* rendezvous, all from the socket it bound, and returns that socket only
\* after the third.
C13_RegisterSendsThree ==
    /\ Len(regPackets) = regI /\ regI <= RegisterRetries
    /\ \A i \in DOMAIN regPackets :
           /\ IsRegistrationPacket(regPackets[i].payload, name)
           /\ regPackets[i].port = 4200
           /\ regPackets[i].src = sock /\ sock.bound
    /\ RegisterReturned => sock.bound /\ Len(regPackets) = 3
    /\ (mainPc = "register_send" /\ procState = "running")
          => Len(regPackets) < 3

\* register has returned after three datagrams for a two-letter name
C13_Witness ==
    /\ RegisterReturned /\ name = <<"a", "b">>
    /\ regPackets = [i \in 1..3 |->
          [src |-> sock, port |-> 4200, payload |-> <<0, 97, 98, 255>>]]

\* register has returned its error, which main returns in turn
RegisterFailed == procState = "exit_err" /\ regI < RegisterRetries

\* C14: register fails if and only if the bind or one of its sends fails,
\* and never waits for an acknowledgment; a failed send is not retried and
\* the repetitions left are not sent; no socket is returned, and the
\* program exits with the error without resolving, punching or starting
\* the session.
C14_RegisterFailure ==
    /\ [](/\ RegisterFailed =>
                /\ error.kind \in {"bind", "send"}
                /\ error.kind = "bind" <=> ~sock.bound
                /\ error.kind = "bind" => regPackets = <<>>
                /\ Len(regPackets) = regI
                /\ mainPc = "exit"
                /\ requests = 0 /\ delays = <<>> /\ ~peer.ok
                /\ punchIdx = 0 /\ ~punchLog.sent
                /\ readerPc = "none" /\ sessPc = "none" /\ ~SessionActed
          /\ RegisterReturned =>
                /\ sock.bound /\ Len(regPackets) = RegisterRetries
                /\ error.kind \notin {"bind"}
          /\ (procState = "running" /\ mainPc = "register_send")
                => ENABLED (RegisterSend /\ procState' = "running"))
    /\ [][procState /= "running" => UNCHANGED vars]_vars
    /\ [][(mainPc \in {"register_bind", "register_send"}
            /\ procState' = "exit_err")
             => /\ regPackets' = regPackets /\ sock' = sock
                /\ mainPc' = "exit"
                /\ error'.kind =
                     (IF mainPc = "register_bind" THEN "bind" ELSE "send")]_vars

\* the second send failed: one datagram was sent, the program has exited
\* with the error, nothing was resolved
C14_Witness ==
    /\ RegisterFailed /\ error.kind = "send"
    /\ Len(regPackets) = 1 /\ requests = 0 /\ sessPc = "none"

----------------------------------------------------------------------------
(* Shutdown, checked under SpecSession.                                    *)

\* the process has ended, and not by an error main returned: the
\* interrupt has ended it
Interrupted == procState \notin {"running", "exit_err"}

\* C15, as stated: an interrupt ends the program normally (exit success,
\* after "Shutting down...") whatever the session is doing at that moment:
\* waiting, in the middle of a send, with lines still queued.
C15_InterruptExitsNormally ==
    (sessPc /= "none" /\ Interrupted) =>
        /\ procState = "exit_ok"
        /\ banners[Len(banners)] = Banner("Shutting down")

----------------------------------------------------------------------------
(* Further properties of get_peer_address, checked under SpecResolver.     *)

RECURSIVE Pow2(_)
Pow2(k) == IF k = 0 THEN 1 ELSE 2 * Pow2(k - 1)

\* how many of the attempts just before attempt i, back to the last 404 or
\* to the start, ended in a transport error
RECURSIVE ErrorsBefore(_)
ErrorsBefore(i) ==
    IF i = 1 \/ OutcomeAt(i - 1) /= TransportError THEN 0
    ELSE 1 + ErrorsBefore(i - 1)

\* C16: a 404 with attempts remaining sleeps exactly 600ms and resets the
\* backoff to 400ms; for any mix of outcomes the sleep after a transport
\* error is 400ms * 2^k capped at 5s, k the number of transport errors
\* immediately before it since the last 404 or the start.
C16_BackoffResetOn404 ==
    /\ \A i \in DOMAIN delays :
           /\ i < max_retries
           /\ OutcomeAt(i) \in Retryable
           /\ OutcomeAt(i) = NotFound404 => delays[i] = 600
           /\ OutcomeAt(i) = TransportError =>
                  delays[i] = Min(400 * Pow2(ErrorsBefore(i)), 5000)
    /\ ~ResolverDone =>
           /\ Len(delays) = attempt - 1
           /\ backoff = Min(400 * Pow2(ErrorsBefore(attempt)), 5000)
           /\ (attempt > 1 /\ OutcomeAt(attempt - 1) = NotFound404)
                 => backoff = 400

\* two transport errors, a 404, and the backoff starts again at 400ms
C16_Witness ==
    /\ delays = <<400, 800, 600, 400>>
    /\ script[3] = NotFound404 /\ script[4] = TransportError

----------------------------------------------------------------------------
(* The text of a chat message, checked under SpecSession.                  *)

\* a line without its trailing newline, and nothing else removed
StripNewline(l) ==
    IF l /= <<>> /\ l[Len(l)] = "\n" THEN SubSeq(l, 1, Len(l) - 1) ELSE l

\* C17, as stated: every non-empty line is sent with only its trailing
\* newline stripped, and only an empty line is discarded: the line the
\* reader has just read, unless it is empty, is the last one it enqueued,
\* less its newline, and every payload is the bytes of an enqueued line.
C17_OnlyNewlineStripped ==
    /\ (line /= <<>> /\ StripNewline(line) /= <<>>) =>
           /\ enqueued /= <<>>
           /\ enqueued[Len(enqueued)] = StripNewline(line)
    /\ \A i \in DOMAIN attempts :
           attempts[i].payload = AsBytes(enqueued[i])

\* the reader reads the line l in this step
ReadsLine(l) == stdin /= <<>> /\ stdin' = Tail(stdin) /\ Head(stdin) = l

\* C17, amended: every line the reader reads that is not empty once
\* trimmed is enqueued once, as the line with all its leading and trailing
\* whitespace stripped (the newline included); a line is discarded if and
\* only if it is empty once trimmed, so a line of blanks is discarded too;
\* each datagram the session sends to the peer carries the bytes of
\* exactly one enqueued line, in order.
C17_TrimmedLineSent ==
    /\ [][\A l \in RawLines : ReadsLine(l) =>
             /\ IF Trim(l) = <<>>
                THEN enqueued' = enqueued /\ queue' = queue
                ELSE /\ enqueued' = Append(enqueued, Trim(l))
                     /\ queue' = Append(queue, Trim(l))
             /\ l = <<" ", "b", " ", "\n">>
                  => enqueued'[Len(enqueued')] = <<"b">>
             /\ l = <<"a", "\n">> => enqueued'[Len(enqueued')] = <<"a">>
             /\ l \in {<<"\n">>, <<" ", "\n">>} => enqueued' = enqueued
             /\ line' = l /\ readerPc' = "running"]_vars
    /\ [](/\ Len(attempts) <= Len(enqueued)
          /\ \A i \in DOMAIN attempts :
                 /\ attempts[i].line = enqueued[i]
                 /\ attempts[i].payload = AsBytes(enqueued[i])
                 /\ attempts[i].dst = peer /\ attempts[i].src = sock
          /\ \A i \in DOMAIN enqueued :
                 /\ enqueued[i] /= <<>>
                 /\ ~IsSpace(enqueued[i][1])
                 /\ ~IsSpace(enqueued[i][Len(enqueued[i])]))

\* the line " b " was read and sent as the one byte of "b", and a line of
\* one blank was read and discarded
C17_Witness ==
    /\ line = <<" ", "\n">>
    /\ enqueued = <<<<"b">>>>
    /\ Len(attempts) = 1 /\ attempts[1].payload = <<98>>

----------------------------------------------------------------------------
(* The punch burst, checked under Spec.                                    *)

\* main has returned the error of a punch send
PunchFailed ==
    procState = "exit_err" /\ error.kind = "send" /\ regI = RegisterRetries

\* C18: the burst sends at most 100 marker datagrams, each "punch", from
\* the registered socket to the resolved address; main passes the loop
\* only with exactly 100 sent; the first send that fails stops the burst
\* and ends the program with the error, and with it the session that was
\* already running: nothing is sent, received or printed afterwards.
C18_PunchBurst ==
    /\ [](/\ punchIdx <= 100
          /\ punchIdx > 0 <=> punchLog.sent
          /\ punchLog.sent =>
                /\ punchLog.src = sock /\ sock.bound
                /\ punchLog.dst = peer /\ peer.ok
                /\ punchLog.payload = <<112, 117, 110, 99, 104>>
          /\ (mainPc \in {"announce", "wait_ctrl_c"} \/ procState = "exit_ok")
                => punchIdx = 100
          /\ mainPc = "punch" => punchIdx < 100
          /\ PunchFailed =>
                /\ punchIdx < 100 /\ mainPc = "exit"
                /\ sessPc /= "none" /\ readerPc /= "none"
                /\ banners = <<Banner("chat with")>>)
    /\ [][/\ punchIdx' \in {punchIdx, punchIdx + 1}
          /\ (mainPc = "punch" /\ mainPc' /= "punch"
              /\ procState' = "running")
               => punchIdx' = 100
          /\ procState /= "running" => UNCHANGED vars]_vars

\* a punch send failed in the middle of the burst while the session was
\* sending a line
C18_Witness ==
    /\ PunchFailed /\ punchIdx = 50
    /\ sessPc = "sending"

----------------------------------------------------------------------------
(* The errors of get_peer_address, checked under SpecResolver.             *)

\* the answer to the last request issued
LastOutcome == OutcomeAt(requests)

\* C19: every failure of get_peer_address is one of four errors, each in
\* its own situation: the network error only when the 5th attempt is a
\* transport error, peer-not-found only when the 5th attempt is a 404,
\* unexpected-status on a status other than 200 and 404, parse/read on a
\* 200; the loop never runs out (the attempt counter never passes 5 and
\* every attempt either returns or continues), so the error after the loop
\* is never raised.
C19_FourErrors ==
    /\ attempt <= max_retries
    /\ requests <= attempt
    /\ (ResolverDone /\ ~peer.ok) =>
           /\ procState = "exit_err"
           /\ requests = attempt
           /\ error.kind \in {"network", "not_found", "unexpected_status",
                               "read_body", "parse"}
           /\ error.kind = "network" <=>
                  (requests = 5 /\ LastOutcome = TransportError)
           /\ error.kind = "not_found" <=>
                  (requests = 5 /\ LastOutcome = NotFound404)
           /\ error.kind = "unexpected_status" <=>
                  (LastOutcome.kind = "resp"
                   /\ LastOutcome.status \notin {200, 404})
           /\ error.kind \in {"read_body", "parse"} <=>
                  (LastOutcome.kind = "resp" /\ LastOutcome.status = 200)
           /\ error.kind = "network" =>
                  error.attempt = 5 /\ error.max = 5
    /\ (ResolverDone /\ peer.ok) =>
           /\ error = NoError
           /\ LastOutcome = Good200

\* four retries and then a 404 on the fifth attempt: peer-not-found
C19_Witness ==
    /\ ResolverDone /\ error.kind = "not_found" /\ requests = 5
    /\ script[1] = TransportError /\ LastOutcome = NotFound404

====
